---- MODULE Spec2Model ----
(***************************************************************************)
(* Outbox-driven aggregation-and-sync pipeline: the worker loop of         *)
(* src/workers/runner.py and the B2B / B2C interaction pipelines that      *)
(* fold relational rows into per-counterparty aggregates and replace the   *)
(* subject's edges in the graph store.                                     *)
(*                                                                         *)
(* Modelling conventions                                                   *)
(*  - Python None / SQL NULL / Cypher null is NULL for numbers and         *)
(*    timestamps and NONE for strings.                                     *)
(*  - A table is the sequence of its rows in stored order; a loader        *)
(*    returns the matching rows in that order.                             *)
(*  - A defaultdict is the sequence of its entries in insertion order,     *)
(*    which is the order list(agg.values()) returns.                       *)
(*  - The graph is a set of nodes and a bag of edges, so that two edges    *)
(*    of one kind between the same two nodes are two edges.                *)
(*  - The upsert text is executed as written, section after section, with  *)
(*    u bound to the subject node, as one atomic unit that either takes    *)
(*    effect whole or raises and changes nothing.                          *)
(***************************************************************************)
EXTENDS Integers, Sequences, FiniteSets, Bags, TLC

NULL == 0 - 1
NONE == "None"

\* ------------------------------------------------------------------ bounds
MaxRows == 2
MaxAttempts == 2
BatchSize == 2

\* ----------------------------------------------------------- value domains
UserIds == {"u1"}
Products == {"p1", "p2"}
Recipes == {"r1"}
VendorIds == {"vd1", "vd2"}
Times == {1, 2}
Ops == {"INSERT", "UPDATE", "DELETE", "delete"}
B2C == "b2c_interaction"
B2B == "b2b_interaction"
AGG_TYPES == {B2C, B2B}

MaxT(a, b) == IF a >= b THEN a ELSE b
MinT(a, b) == IF a <= b THEN a ELSE b

\* a comparison that forgets to fold the case
UpperAsIs(s) == s

\* str.upper() on the op values that occur
Upper(s) ==
  CASE s = "delete" -> "DELETE"
    [] s = "Delete" -> "DELETE"
    [] s = "insert" -> "INSERT"
    [] s = "update" -> "UPDATE"
    [] OTHER -> s

\* fetch_one's None
NoRow == [id |-> NONE]

\* -------------------------------------------------------- rows of the tables
CustomerRows ==
  [id : UserIds, email : {"a@x"}, full_name : {"A"}, updated_at : {1}]
VendorUserRows ==
  [id : UserIds, email : {"v@x"}, role : {"buyer"}, updated_at : {1},
   vendor_id : VendorIds]
vendors == {[id |-> "vd1", name |-> "V1"], [id |-> "vd2", name |-> "V2"]}
HistoryRows ==
  [user_id : UserIds, recipe_id : Recipes, event_type : {"viewed", "cooked"},
   event_at : Times]
SavedRows == [user_id : UserIds, recipe_id : Recipes, saved_at : Times]
RatingRows ==
  [b2c_customer_id : UserIds, recipe_id : Recipes, rating : {4},
   created_at : {1}]
  \cup
  [b2c_customer_id : UserIds, recipe_id : Recipes, rating : {5},
   created_at : {2}]
InteractionRows ==
  [b2c_customer_id : UserIds, product_id : Products,
   interaction_type : {"viewed"}, rating : {5},
   quantity : {NULL}, price_paid : {NULL}, interaction_timestamp : {1}]
  \cup
  [b2c_customer_id : UserIds, product_id : Products,
   interaction_type : {"saved"}, rating : {NULL},
   quantity : {NULL}, price_paid : {NULL}, interaction_timestamp : {1}]
  \cup
  [b2c_customer_id : UserIds, product_id : Products,
   interaction_type : {"purchased"}, rating : {NULL},
   quantity : {2}, price_paid : {3}, interaction_timestamp : {2}]
ActionRows ==
  [vendor_user_id : UserIds, product_id : Products,
   action_type : {"view_product"}, created_at : Times]
  \cup
  [vendor_user_id : UserIds, product_id : Products,
   action_type : {"add_note"}, created_at : {1}]
FeedbackRows ==
  [vendor_user_id : UserIds, source_product_id : Products,
   target_product_id : {"p2"}, feedback_type : {"approved"},
   reason : {NONE}, created_at : Times]
  \cup
  [vendor_user_id : UserIds, source_product_id : Products,
   target_product_id : {"p2"}, feedback_type : {"rejected"},
   reason : {"dup"}, created_at : Times]

\* ------------------------------------------------------------------- state
VARIABLES
  b2c_customers,                  \* table b2c_customers: set of rows
  vendor_users,                   \* table vendor_users: set of rows
  recipe_history,                 \* tables of interaction rows, in stored order
  saved_recipes,
  recipe_ratings,
  customer_product_interactions,
  vendor_user_actions,
  match_feedback,
  graph,                          \* [nodes, edges] of the graph store
  scope,                          \* the table family the producers write
  call,                           \* the latest handle_event call, if no source
                                  \* write happened since
  outbox,                         \* the outbox table, by event id
  locks,                          \* row locks of open claim transactions
  wk                              \* each worker: position, batch, locals

srcvars ==
  <<b2c_customers, vendor_users, recipe_history, saved_recipes, recipe_ratings,
    customer_product_interactions, vendor_user_actions, match_feedback>>
wvars == <<outbox, locks, wk>>
vars == <<srcvars, graph, scope, call, wvars>>

\* ------------------------------------------------------------ data loaders
load_user(id) ==
  IF \E r \in b2c_customers : r.id = id
  THEN CHOOSE r \in b2c_customers : r.id = id
  ELSE NoRow

load_vendor_user(id) ==
  IF \E vu \in vendor_users : vu.id = id /\ \E v \in vendors : v.id = vu.vendor_id
  THEN LET vu == CHOOSE x \in vendor_users : x.id = id
           v == CHOOSE x \in vendors : x.id = vu.vendor_id
       IN [id |-> vu.id, email |-> vu.email, role |-> vu.role,
           updated_at |-> vu.updated_at, vendor_id |-> v.id,
           vendor_name |-> v.name]
  ELSE NoRow

IsForUser(row, id) == row.user_id = id
IsForCustomer(row, id) == row.b2c_customer_id = id
IsForVendorUser(row, id) == row.vendor_user_id = id

load_recipe_history(id) ==
  SelectSeq(recipe_history, LAMBDA r : IsForUser(r, id))
load_saved_recipes(id) ==
  SelectSeq(saved_recipes, LAMBDA r : IsForUser(r, id))
load_recipe_ratings(id) ==
  SelectSeq(recipe_ratings, LAMBDA r : IsForCustomer(r, id))
load_product_interactions(id) ==
  SelectSeq(customer_product_interactions, LAMBDA r : IsForCustomer(r, id))
load_product_actions(id) ==
  SelectSeq(vendor_user_actions,
            LAMBDA r : IsForVendorUser(r, id) /\ r.product_id # NONE)
load_match_feedback(id) ==
  SelectSeq(match_feedback, LAMBDA r : IsForVendorUser(r, id))

\* -------------------------------------------------------------- aggregation
\* index of the entry whose field f is k, 0 when the dict has no such key
IndexOfKey(agg, f, k) ==
  IF \E i \in 1..Len(agg) : agg[i][f] = k
  THEN CHOOSE i \in 1..Len(agg) : agg[i][f] = k
  ELSE 0

\* a "last" field that takes each row's timestamp in turn
LastOfOverwritten(old, ts) == ts

\* max(old, ts) if old else ts
LastOf(old, ts) == IF old # NULL THEN MaxT(old, ts) ELSE ts
\* min(old, ts) if old else ts
FirstOf(old, ts) == IF old # NULL THEN MinT(old, ts) ELSE ts

B2B_product_entry(pid) ==
  [product_id |-> pid, views_count |-> 0, last_view_at |-> NULL]

B2B_products_row(agg, row) ==
  LET pid == row.product_id
      agg1 == IF IndexOfKey(agg, "product_id", pid) = 0
              THEN Append(agg, B2B_product_entry(pid)) ELSE agg
      i == IndexOfKey(agg1, "product_id", pid)
      entry == agg1[i]
  IN IF row.action_type = "view_product"
     THEN [agg1 EXCEPT ![i] =
             [entry EXCEPT !.views_count = @ + 1,
                           !.last_view_at = LastOf(@, row.created_at)]]
     ELSE agg1

RECURSIVE B2B_products_loop(_, _)
B2B_products_loop(agg, rows) ==
  IF rows = <<>> THEN agg
  ELSE B2B_products_loop(B2B_products_row(agg, Head(rows)), Tail(rows))

B2B_aggregate_products(actions) == B2B_products_loop(<<>>, actions)

\* index of the entry under the key (source_product_id, target_product_id)
IndexOfMatch(agg, s, t) ==
  LET Hit(i) == agg[i].source_product_id = s /\ agg[i].target_product_id = t
  IN IF \E i \in 1..Len(agg) : Hit(i)
     THEN CHOOSE i \in 1..Len(agg) : Hit(i)
     ELSE 0

B2B_match_entry(s, t) ==
  [source_product_id |-> s, target_product_id |-> t,
   approved |-> FALSE, rejected |-> FALSE, reason |-> NONE,
   last_feedback_at |-> NULL]

B2B_matches_row(agg, row) ==
  LET s == row.source_product_id
      t == row.target_product_id
      agg1 == IF IndexOfMatch(agg, s, t) = 0
              THEN Append(agg, B2B_match_entry(s, t)) ELSE agg
      i == IndexOfMatch(agg1, s, t)
      e1 == [agg1[i] EXCEPT !.last_feedback_at = LastOf(@, row.created_at)]
      e2 == IF row.feedback_type = "approved"
            THEN [e1 EXCEPT !.approved = TRUE]
            ELSE IF row.feedback_type = "rejected"
                 THEN [e1 EXCEPT !.rejected = TRUE, !.reason = row.reason]
                 ELSE e1
  IN [agg1 EXCEPT ![i] = e2]

RECURSIVE B2B_matches_loop(_, _)
B2B_matches_loop(agg, rows) ==
  IF rows = <<>> THEN agg
  ELSE B2B_matches_loop(B2B_matches_row(agg, Head(rows)), Tail(rows))

B2B_aggregate_matches(feedback) == B2B_matches_loop(<<>>, feedback)

B2C_recipe_entry(rid) ==
  [recipe_id |-> rid, views_count |-> 0, last_view_at |-> NULL,
   cooks_count |-> 0, last_cook_at |-> NULL, saved |-> FALSE,
   first_saved_at |-> NULL, rating |-> NULL, last_rating_at |-> NULL]

\* entry = agg[rid]; entry["recipe_id"] = rid
RecipeEntryFor(agg, rid) ==
  IF IndexOfKey(agg, "recipe_id", rid) = 0
  THEN Append(agg, B2C_recipe_entry(rid)) ELSE agg

B2C_history_row(agg, row) ==
  LET agg1 == RecipeEntryFor(agg, row.recipe_id)
      i == IndexOfKey(agg1, "recipe_id", row.recipe_id)
      entry == agg1[i]
  IN IF row.event_type = "viewed"
     THEN [agg1 EXCEPT ![i] =
             [entry EXCEPT !.views_count = @ + 1,
                           !.last_view_at = LastOf(@, row.event_at)]]
     ELSE IF row.event_type = "cooked"
          THEN [agg1 EXCEPT ![i] =
                  [entry EXCEPT !.cooks_count = @ + 1,
                                !.last_cook_at = LastOf(@, row.event_at)]]
          ELSE agg1

B2C_saved_row(agg, row) ==
  LET agg1 == RecipeEntryFor(agg, row.recipe_id)
      i == IndexOfKey(agg1, "recipe_id", row.recipe_id)
  IN [agg1 EXCEPT ![i] =
        [agg1[i] EXCEPT !.saved = TRUE,
                        !.first_saved_at = FirstOf(@, row.saved_at)]]

B2C_rating_row(agg, row) ==
  LET agg1 == RecipeEntryFor(agg, row.recipe_id)
      i == IndexOfKey(agg1, "recipe_id", row.recipe_id)
  IN [agg1 EXCEPT ![i] =
        [agg1[i] EXCEPT !.rating = row.rating,
                        !.last_rating_at = row.created_at]]

RECURSIVE B2C_history_loop(_, _)
B2C_history_loop(agg, rows) ==
  IF rows = <<>> THEN agg
  ELSE B2C_history_loop(B2C_history_row(agg, Head(rows)), Tail(rows))

RECURSIVE B2C_saved_loop(_, _)
B2C_saved_loop(agg, rows) ==
  IF rows = <<>> THEN agg
  ELSE B2C_saved_loop(B2C_saved_row(agg, Head(rows)), Tail(rows))

RECURSIVE B2C_ratings_loop(_, _)
B2C_ratings_loop(agg, rows) ==
  IF rows = <<>> THEN agg
  ELSE B2C_ratings_loop(B2C_rating_row(agg, Head(rows)), Tail(rows))

B2C_aggregate_recipes(history, saved, ratings) ==
  B2C_ratings_loop(B2C_saved_loop(B2C_history_loop(<<>>, history), saved),
                   ratings)

\* a default entry that already counts the row that creates it
B2C_product_entry_counted(pid) ==
  [product_id |-> pid, views_count |-> 1, last_view_at |-> NULL,
   purchases_count |-> 0, last_purchase_at |-> NULL, saved |-> FALSE,
   rating |-> NULL, last_rating_at |-> NULL,
   quantity_total |-> 0, price_total |-> 0]

B2C_product_entry(pid) ==
  [product_id |-> pid, views_count |-> 0, last_view_at |-> NULL,
   purchases_count |-> 0, last_purchase_at |-> NULL, saved |-> FALSE,
   rating |-> NULL, last_rating_at |-> NULL, quantity_total |-> 0,
   price_total |-> 0]

\* x or 0
OrZero(x) == IF x = NULL THEN 0 ELSE x
\* truth value of a rating: None and 0 are false
Truthy(x) == x # NULL /\ x # 0

B2C_products_row(agg, row) ==
  LET pid == row.product_id
      agg1 == IF IndexOfKey(agg, "product_id", pid) = 0
              THEN Append(agg, B2C_product_entry(pid)) ELSE agg
      i == IndexOfKey(agg1, "product_id", pid)
      itype == row.interaction_type
      ts == row.interaction_timestamp
      e1 == IF itype = "viewed"
            THEN [agg1[i] EXCEPT !.views_count = @ + 1,
                                 !.last_view_at = LastOf(@, ts)]
            ELSE IF itype = "purchased"
                 THEN [agg1[i] EXCEPT
                         !.purchases_count = @ + 1,
                         !.last_purchase_at = LastOf(@, ts),
                         !.quantity_total = @ + OrZero(row.quantity),
                         !.price_total = @ + OrZero(row.price_paid)]
                 ELSE IF itype = "saved"
                      THEN [agg1[i] EXCEPT !.saved = TRUE]
                      ELSE agg1[i]
      e2 == IF Truthy(row.rating)
            THEN [e1 EXCEPT !.rating = row.rating, !.last_rating_at = ts]
            ELSE e1
  IN [agg1 EXCEPT ![i] = e2]

RECURSIVE B2C_products_loop(_, _)
B2C_products_loop(agg, rows) ==
  IF rows = <<>> THEN agg
  ELSE B2C_products_loop(B2C_products_row(agg, Head(rows)), Tail(rows))

B2C_aggregate_products(interactions) == B2C_products_loop(<<>>, interactions)

\* -------------------------------------------------------------- graph store
EmptyGraph == [nodes |-> {}, edges |-> EmptyBag]
NoProps == <<>>
Ref(label, id) == [label |-> label, id |-> id]

\* datetime(x): null stays null, a timestamp becomes a temporal value of the
\* graph, which is not the value it was made from
datetime(x) == IF x = NULL THEN NULL ELSE [instant |-> x]

\* SET n.f = v for every field f of props; other properties stay. A property
\* set to null is held as null: the store keeps no such property and reads
\* it back as null
SetFields(old, props) ==
  [f \in (DOMAIN old) \cup (DOMAIN props) |->
     IF f \in DOMAIN props THEN props[f] ELSE old[f]]

NodeIs(n, label, id) == n.label = label /\ n.id = id

\* MERGE (n:label {id: id}) SET n.<props>
MergeNode(g, label, id, props) ==
  IF \E n \in g.nodes : NodeIs(n, label, id)
  THEN [g EXCEPT !.nodes =
          {IF NodeIs(n, label, id)
           THEN [n EXCEPT !.props = SetFields(@, props)] ELSE n : n \in @}]
  ELSE [g EXCEPT !.nodes =
          @ \cup {[label |-> label, id |-> id,
                   props |-> SetFields(NoProps, props)]}]

EdgeIs(e, kind, src, dst) == e.kind = kind /\ e.src = src /\ e.dst = dst

BagWithout(bag, S) == [x \in (DOMAIN bag) \ S |-> bag[x]]

RECURSIVE SetEdgeProps(_, _, _)
SetEdgeProps(bag, M, props) ==
  IF M = {} THEN bag
  ELSE LET e == CHOOSE x \in M : TRUE
           e2 == [e EXCEPT !.props = SetFields(@, props)]
       IN SetEdgeProps(BagWithout(bag, {e}) (+) [x \in {e2} |-> bag[e]],
                       M \ {e}, props)

\* CREATE (src)-[:kind props]->(dst)
CreateEdge(g, kind, src, dst, props) ==
  [g EXCEPT !.edges =
     @ (+) SetToBag({[kind |-> kind, src |-> src, dst |-> dst,
                      props |-> SetFields(NoProps, props)]})]

\* CREATE where the text says MERGE
MergeEdgeAsCreate(g, kind, src, dst, props) ==
  CreateEdge(g, kind, src, dst, props)

\* MERGE (src)-[r:kind]->(dst) SET r.<props>
MergeEdge(g, kind, src, dst, props) ==
  LET M == {e \in DOMAIN g.edges : EdgeIs(e, kind, src, dst)}
  IN IF M = {}
     THEN CreateEdge(g, kind, src, dst, props)
     ELSE [g EXCEPT !.edges = SetEdgeProps(@, M, props)]

\* a rebuild that does not clear first
KeepEdges(g, src, kinds, label) == g

\* a clearing step whose pattern is not anchored at the subject
DeleteEdgesOfAnySource(g, src, kinds, label) ==
  [g EXCEPT !.edges =
     BagWithout(@, {e \in DOMAIN @ : e.kind \in kinds /\ e.dst.label = label})]

\* OPTIONAL MATCH (src)-[r:kinds]->(:label) DELETE r
DeleteEdges(g, src, kinds, label) ==
  [g EXCEPT !.edges =
     BagWithout(@, {e \in DOMAIN @ :
                      e.src = src /\ e.kind \in kinds /\ e.dst.label = label})]

\* a delete that matches the id under any label
DetachDeleteAnyLabel(g, label, id) ==
  [nodes |-> {n \in g.nodes : n.id # id},
   edges |-> BagWithout(g.edges,
                        {e \in DOMAIN g.edges : e.src.id = id \/ e.dst.id = id})]

\* MATCH (u:label {id: id}) DETACH DELETE u
DetachDelete(g, label, id) ==
  LET u == Ref(label, id)
  IN [nodes |-> {n \in g.nodes : ~NodeIs(n, label, id)},
      edges |-> BagWithout(g.edges,
                           {e \in DOMAIN g.edges : e.src = u \/ e.dst = u})]

\* FOREACH (_ IN CASE WHEN cond THEN [1] ELSE [] END | MERGE ... SET ...)
MergeEdgeIf(cond, g, kind, src, dst, props) ==
  IF cond THEN MergeEdge(g, kind, src, dst, props) ELSE g

\* ------------------------------------------------------------- B2B upsert
B2B_product_item(g, u, p) ==
  LET g1 == MergeNode(g, "Product", p.product_id, <<>>)
  IN MergeEdgeIf(p.views_count > 0, g1, "VIEWED_PRODUCT", u,
                 Ref("Product", p.product_id),
                 [count |-> p.views_count,
                  last_at |-> datetime(p.last_view_at)])

RECURSIVE B2B_unwind_products(_, _, _)
B2B_unwind_products(g, u, products) ==
  IF products = <<>> THEN g
  ELSE B2B_unwind_products(B2B_product_item(g, u, Head(products)), u,
                           Tail(products))

B2B_match_item(g, u, m) ==
  LET tgt == Ref("Product", m.target_product_id)
      g1 == MergeNode(g, "Product", m.source_product_id, <<>>)
      g2 == MergeNode(g1, "Product", m.target_product_id, <<>>)
      g3 == MergeEdgeIf(m.approved, g2, "APPROVED_MATCH", u, tgt,
                        [source_product_id |-> m.source_product_id,
                         last_at |-> datetime(m.last_feedback_at)])
  IN MergeEdgeIf(m.rejected, g3, "REJECTED_MATCH", u, tgt,
                 [source_product_id |-> m.source_product_id,
                  reason |-> m.reason,
                  last_at |-> datetime(m.last_feedback_at)])

RECURSIVE B2B_unwind_matches(_, _, _)
B2B_unwind_matches(g, u, matches) ==
  IF matches = <<>> THEN g
  ELSE B2B_unwind_matches(B2B_match_item(g, u, Head(matches)), u,
                          Tail(matches))

B2B_PRODUCT_KINDS == {"VIEWED_PRODUCT"}
B2B_MATCH_KINDS == {"APPROVED_MATCH", "REJECTED_MATCH"}

B2B_upsert(g, params) ==
  LET user == params.user
      u == Ref("VendorUser", user.id)
      g1 == MergeNode(g, "VendorUser", user.id,
                      [email |-> user.email, role |-> user.role,
                       updated_at |-> datetime(user.updated_at)])
      g2 == MergeNode(g1, "Vendor", user.vendor_id,
                      [name |-> user.vendor_name])
      g3 == MergeEdge(g2, "BELONGS_TO_VENDOR", u,
                      Ref("Vendor", user.vendor_id), <<>>)
      g4 == DeleteEdges(g3, u, B2B_PRODUCT_KINDS, "Product")
      g5 == B2B_unwind_products(g4, u, params.products)
      g6 == DeleteEdges(g5, u, B2B_MATCH_KINDS, "Product")
  IN B2B_unwind_matches(g6, u, params.matches)

\* ------------------------------------------------------------- B2C upsert
B2C_recipe_item(g, u, i) ==
  LET r == Ref("Recipe", i.recipe_id)
      g1 == MergeNode(g, "Recipe", i.recipe_id, <<>>)
      g2 == MergeEdgeIf(i.views_count > 0, g1, "VIEWED", u, r,
                        [count |-> i.views_count,
                         last_at |-> datetime(i.last_view_at)])
      g3 == MergeEdgeIf(i.cooks_count > 0, g2, "COOKED", u, r,
                        [count |-> i.cooks_count,
                         last_at |-> datetime(i.last_cook_at)])
      g4 == MergeEdgeIf(i.saved, g3, "SAVED", u, r,
                        [first_saved_at |-> datetime(i.first_saved_at)])
  IN MergeEdgeIf(i.rating # NULL, g4, "RATED", u, r,
                 [rating |-> i.rating,
                  last_at |-> datetime(i.last_rating_at)])

RECURSIVE B2C_unwind_recipes(_, _, _)
B2C_unwind_recipes(g, u, recipes) ==
  IF recipes = <<>> THEN g
  ELSE B2C_unwind_recipes(B2C_recipe_item(g, u, Head(recipes)), u,
                          Tail(recipes))

B2C_product_item(g, u, p) ==
  LET prod == Ref("Product", p.product_id)
      g1 == MergeNode(g, "Product", p.product_id, <<>>)
      g2 == MergeEdgeIf(p.views_count > 0, g1, "VIEWED_PRODUCT", u, prod,
                        [count |-> p.views_count,
                         last_at |-> datetime(p.last_view_at)])
      g3 == MergeEdgeIf(p.purchases_count > 0, g2, "PURCHASED", u, prod,
                        [count |-> p.purchases_count,
                         last_at |-> datetime(p.last_purchase_at),
                         quantity_total |-> p.quantity_total,
                         price_total |-> p.price_total])
      g4 == MergeEdgeIf(p.saved, g3, "SAVED_PRODUCT", u, prod, <<>>)
  IN MergeEdgeIf(p.rating # NULL, g4, "RATED_PRODUCT", u, prod,
                 [rating |-> p.rating,
                  last_at |-> datetime(p.last_rating_at)])

RECURSIVE B2C_unwind_products(_, _, _)
B2C_unwind_products(g, u, products) ==
  IF products = <<>> THEN g
  ELSE B2C_unwind_products(B2C_product_item(g, u, Head(products)), u,
                           Tail(products))

B2C_RECIPE_KINDS == {"VIEWED", "COOKED", "SAVED", "RATED"}
B2C_PRODUCT_KINDS ==
  {"VIEWED_PRODUCT", "PURCHASED", "SAVED_PRODUCT", "RATED_PRODUCT"}

B2C_upsert(g, params) ==
  LET user == params.user
      u == Ref("B2CCustomer", user.id)
      g1 == MergeNode(g, "B2CCustomer", user.id,
                      [email |-> user.email, full_name |-> user.full_name,
                       updated_at |-> datetime(user.updated_at)])
      g2 == DeleteEdges(g1, u, B2C_RECIPE_KINDS, "Recipe")
      g3 == B2C_unwind_recipes(g2, u, params.recipes)
      g4 == DeleteEdges(g3, u, B2C_PRODUCT_KINDS, "Product")
  IN B2C_unwind_products(g4, u, params.products)

B2B_delete(g, id) == DetachDelete(g, "VendorUser", id)
B2C_delete(g, id) == DetachDelete(g, "B2CCustomer", id)

\* ------------------------------------------------------------ handle_event
B2C_params(id) ==
  [user |-> load_user(id),
   recipes |-> B2C_aggregate_recipes(load_recipe_history(id),
                                     load_saved_recipes(id),
                                     load_recipe_ratings(id)),
   products |-> B2C_aggregate_products(load_product_interactions(id))]

B2B_params(id) ==
  [user |-> load_vendor_user(id),
   products |-> B2B_aggregate_products(load_product_actions(id)),
   matches |-> B2B_aggregate_matches(load_match_feedback(id))]

SubjectLabel(agg_type) == IF agg_type = B2C THEN "B2CCustomer" ELSE "VendorUser"
LoadSubject(agg_type, id) ==
  IF agg_type = B2C THEN load_user(id) ELSE load_vendor_user(id)
Params(agg_type, id) == IF agg_type = B2C THEN B2C_params(id) ELSE B2B_params(id)
Upsert(agg_type, g, params) ==
  IF agg_type = B2C THEN B2C_upsert(g, params) ELSE B2B_upsert(g, params)
Delete(agg_type, g, id) ==
  IF agg_type = B2C THEN B2C_delete(g, id) ELSE B2B_delete(g, id)

\* event.op.upper() == "DELETE"
IsDelete(op) == Upper(op) = "DELETE"

\* a missing subject taken for a delete whatever the op
PathIgnoringOp(user, op) == IF user = NoRow THEN "delete" ELSE "upsert"

\* a handle_event that looks at the op before it looks at the subject row
PathByOpFirst(user, op) ==
  IF IsDelete(op) THEN "delete"
  ELSE IF user = NoRow THEN "skip" ELSE "upsert"

\* which branch handle_event takes for the subject row it loaded
PathOf(user, op) ==
  IF user = NoRow THEN (IF IsDelete(op) THEN "delete" ELSE "skip") ELSE "upsert"

\* the graph after a call that takes `path`; a call that raises (in a load
\* or in the graph write, which is atomic) leaves the graph as it was
GraphAfter(agg_type, id, path, raised, g) ==
  IF raised THEN g
  ELSE CASE path = "upsert" -> Upsert(agg_type, g, Params(agg_type, id))
         [] path = "delete" -> Delete(agg_type, g, id)
         [] OTHER -> g

HasNode(g, label, id) == \E n \in g.nodes : NodeIs(n, label, id)

NoCall ==
  [agg_type |-> NONE, id |-> NONE, op |-> NONE, path |-> "none",
   raised |-> FALSE, had_node |-> FALSE, again |-> FALSE]

\* one whole call of handle_event(event) of the pipeline of agg_type
HandleEvent(agg_type, id, op) ==
  LET path == PathOf(LoadSubject(agg_type, id), op)
  IN \E raised \in BOOLEAN :
       /\ graph' = GraphAfter(agg_type, id, path, raised, graph)
       /\ call' = [agg_type |-> agg_type, id |-> id, op |-> op,
                   path |-> IF raised THEN "none" ELSE path,
                   raised |-> raised,
                   had_node |-> /\ path = "delete"
                                /\ ~raised
                                /\ HasNode(graph, SubjectLabel(agg_type), id),
                   again |-> /\ ~raised
                             /\ ~call.raised
                             /\ <<call.agg_type, call.id, call.op>>
                                  = <<agg_type, id, op>>]
       /\ UNCHANGED <<srcvars, scope, wvars>>

\* ---------------------------------------------------------------- producers
SCOPES ==
  {"b2c_recipes", "b2c_products", "b2b_actions", "b2b_matches", "b2b_vendor"}
ScopeType(sc) == IF sc \in {"b2c_recipes", "b2c_products"} THEN B2C ELSE B2B
\* the vendors a run's vendor users belong to
ScopeVendors(sc) == IF sc = "b2b_vendor" THEN VendorIds ELSE {"vd1"}

TotalRows ==
  Len(recipe_history) + Len(saved_recipes) + Len(recipe_ratings)
  + Len(customer_product_interactions) + Len(vendor_user_actions)
  + Len(match_feedback)

RemoveAt(s, i) == SubSeq(s, 1, i - 1) \o SubSeq(s, i + 1, Len(s))

Wrote == call' = NoCall /\ UNCHANGED <<graph, scope, wvars>>

UpsertCustomer(row) ==
  /\ ScopeType(scope) = B2C
  /\ b2c_customers' = {r \in b2c_customers : r.id # row.id} \cup {row}
  /\ b2c_customers' # b2c_customers
  /\ UNCHANGED <<vendor_users, recipe_history, saved_recipes, recipe_ratings,
                 customer_product_interactions, vendor_user_actions,
                 match_feedback>>
  /\ Wrote

DeleteCustomer(id) ==
  /\ \E r \in b2c_customers : r.id = id
  /\ b2c_customers' = {r \in b2c_customers : r.id # id}
  /\ UNCHANGED <<vendor_users, recipe_history, saved_recipes, recipe_ratings,
                 customer_product_interactions, vendor_user_actions,
                 match_feedback>>
  /\ Wrote

UpsertVendorUser(row) ==
  /\ ScopeType(scope) = B2B
  /\ row.vendor_id \in ScopeVendors(scope)
  /\ vendor_users' = {r \in vendor_users : r.id # row.id} \cup {row}
  /\ vendor_users' # vendor_users
  /\ UNCHANGED <<b2c_customers, recipe_history, saved_recipes, recipe_ratings,
                 customer_product_interactions, vendor_user_actions,
                 match_feedback>>
  /\ Wrote

DeleteVendorUser(id) ==
  /\ \E r \in vendor_users : r.id = id
  /\ vendor_users' = {r \in vendor_users : r.id # id}
  /\ UNCHANGED <<b2c_customers, recipe_history, saved_recipes, recipe_ratings,
                 customer_product_interactions, vendor_user_actions,
                 match_feedback>>
  /\ Wrote

InsertRow ==
  /\ TotalRows < MaxRows
  /\ \/ /\ scope = "b2c_recipes"
        /\ \/ \E r \in HistoryRows :
                /\ recipe_history' = Append(recipe_history, r)
                /\ UNCHANGED <<saved_recipes, recipe_ratings>>
           \/ \E r \in SavedRows :
                /\ saved_recipes' = Append(saved_recipes, r)
                /\ UNCHANGED <<recipe_history, recipe_ratings>>
           \/ \E r \in RatingRows :
                /\ recipe_ratings' = Append(recipe_ratings, r)
                /\ UNCHANGED <<recipe_history, saved_recipes>>
        /\ UNCHANGED <<customer_product_interactions, vendor_user_actions,
                       match_feedback>>
     \/ /\ scope = "b2c_products"
        /\ \E r \in InteractionRows :
             customer_product_interactions'
               = Append(customer_product_interactions, r)
        /\ UNCHANGED <<recipe_history, saved_recipes, recipe_ratings,
                       vendor_user_actions, match_feedback>>
     \/ /\ scope = "b2b_actions"
        /\ \E r \in ActionRows :
             vendor_user_actions' = Append(vendor_user_actions, r)
        /\ UNCHANGED <<recipe_history, saved_recipes, recipe_ratings,
                       customer_product_interactions, match_feedback>>
     \/ /\ scope = "b2b_matches"
        /\ \E r \in FeedbackRows :
             match_feedback' = Append(match_feedback, r)
        /\ UNCHANGED <<recipe_history, saved_recipes, recipe_ratings,
                       customer_product_interactions, vendor_user_actions>>
  /\ UNCHANGED <<b2c_customers, vendor_users>>
  /\ Wrote

DeleteRow ==
  /\ \/ \E i \in 1..Len(recipe_history) :
          /\ recipe_history' = RemoveAt(recipe_history, i)
          /\ UNCHANGED <<saved_recipes, recipe_ratings,
                         customer_product_interactions, vendor_user_actions,
                         match_feedback>>
     \/ \E i \in 1..Len(saved_recipes) :
          /\ saved_recipes' = RemoveAt(saved_recipes, i)
          /\ UNCHANGED <<recipe_history, recipe_ratings,
                         customer_product_interactions, vendor_user_actions,
                         match_feedback>>
     \/ \E i \in 1..Len(recipe_ratings) :
          /\ recipe_ratings' = RemoveAt(recipe_ratings, i)
          /\ UNCHANGED <<recipe_history, saved_recipes,
                         customer_product_interactions, vendor_user_actions,
                         match_feedback>>
     \/ \E i \in 1..Len(customer_product_interactions) :
          /\ customer_product_interactions'
               = RemoveAt(customer_product_interactions, i)
          /\ UNCHANGED <<recipe_history, saved_recipes, recipe_ratings,
                         vendor_user_actions, match_feedback>>
     \/ \E i \in 1..Len(vendor_user_actions) :
          /\ vendor_user_actions' = RemoveAt(vendor_user_actions, i)
          /\ UNCHANGED <<recipe_history, saved_recipes, recipe_ratings,
                         customer_product_interactions, match_feedback>>
     \/ \E i \in 1..Len(match_feedback) :
          /\ match_feedback' = RemoveAt(match_feedback, i)
          /\ UNCHANGED <<recipe_history, saved_recipes, recipe_ratings,
                         customer_product_interactions, vendor_user_actions>>
  /\ UNCHANGED <<b2c_customers, vendor_users>>
  /\ Wrote

InitSync ==
  /\ b2c_customers = {}
  /\ vendor_users = {}
  /\ recipe_history = <<>>
  /\ saved_recipes = <<>>
  /\ recipe_ratings = <<>>
  /\ customer_product_interactions = <<>>
  /\ vendor_user_actions = <<>>
  /\ match_feedback = <<>>
  /\ graph = EmptyGraph
  /\ scope \in SCOPES
  /\ call = NoCall
  /\ outbox = <<>>
  /\ locks = <<>>
  /\ wk = <<>>

Sync == \E id \in UserIds, op \in Ops : HandleEvent(ScopeType(scope), id, op)

NextSync ==
  \/ \E row \in CustomerRows : UpsertCustomer(row)
  \/ \E id \in UserIds : DeleteCustomer(id)
  \/ \E row \in VendorUserRows : UpsertVendorUser(row)
  \/ \E id \in UserIds : DeleteVendorUser(id)
  \/ InsertRow
  \/ DeleteRow
  \/ Sync

SpecSync == InitSync /\ [][NextSync]_vars

\* ------------------------------------------------------------------ outbox
Workers == {"w1", "w2"}
EventIds == {1, 2}
TABLES ==
  {"saved_recipes", "recipe_history", "recipe_ratings",
   "customer_product_interactions", "vendor_user_actions", "match_feedback"}

\* an outbox row as the producer's trigger leaves it
NewEvent(id, aggregate_type, aggregate_id, op) ==
  [id |-> id, aggregate_type |-> aggregate_type,
   aggregate_id |-> aggregate_id, op |-> op,
   source_table |-> IF aggregate_type = B2B THEN "vendor_user_actions"
                    ELSE "recipe_history",
   attempts |-> 0, status |-> "pending", last_error |-> NONE]

\* the rows the claim query may return to a transaction
Claimable(ob, lk) ==
  {e \in DOMAIN ob :
     /\ ob[e].status = "pending"
     /\ ob[e].attempts < MaxAttempts
     /\ ob[e].source_table \in TABLES
     /\ ob[e].aggregate_type \in AGG_TYPES
     /\ lk[e] = NONE}

RECURSIVE InIdOrder(_)
InIdOrder(S) ==
  IF S = {} THEN <<>>
  ELSE LET m == CHOOSE x \in S : \A y \in S : x <= y
       IN <<m>> \o InIdOrder(S \ {m})

FirstN(q, n) == SubSeq(q, 1, IF Len(q) < n THEN Len(q) ELSE n)

\* fetch_pending_events(conn, batch_size, max_attempts, ...): the ids claimed
fetch_pending_events(ob, lk, batch_size) ==
  FirstN(InIdOrder(Claimable(ob, lk)), batch_size)

\* mark_processed(conn, event_id)
mark_processed(ob, id) == [ob EXCEPT ![id].status = "processed"]

\* mark_failed(conn, event_id, error_text)
mark_failed(ob, id, err) ==
  [ob EXCEPT ![id].attempts = @ + 1, ![id].last_error = err]

\* -------------------------------------------------------------- the worker
NoParams == [user |-> NoRow]

\* what became of one event of a batch: how handle_event ended, whether the
\* subject row was missing, the branch taken, whether the graph write took
\* effect, whether mark_processed raised, and the status update that landed
NoEntry ==
  [handle |-> "pending", absent |-> FALSE, path |-> "none", wrote |-> FALSE,
   mp_raised |-> FALSE, mark |-> "none"]

Idle(mode) ==
  [pc |-> IF mode = "loop" THEN "fetch" ELSE "off", mode |-> mode,
   batch |-> <<>>, i |-> 0, cur |-> NoEntry, log |-> <<>>,
   params |-> NoParams, exc |-> NONE]

\* a dispatch whose last branch takes every other tag for B2B
PcAfterDispatchNoElse(agg) == "load"

\* process_batch's dispatch on event.aggregate_type
PcAfterDispatch(agg) ==
  IF agg = B2C \/ agg = B2B THEN "load" ELSE "continue"

\* a skip that leaves the event unmarked, as an unknown tag is left
PcAfterLoadSkipUnmarked(path) == IF path = "skip" THEN "continue" ELSE "write"

\* a missing subject treated as a failure of the event
PcAfterLoadSkipFails(path) == IF path = "skip" THEN "mark_failed" ELSE "write"

\* where control goes once the loads of handle_event returned
PcAfterLoad(path) == IF path = "skip" THEN "mark_processed" ELSE "write"

\* a write whose exception is swallowed
PcAfterWriteSwallowed(raised) == "mark_processed"

\* where control goes once neo4j.write returned or raised
PcAfterWrite(raised) == IF raised THEN "mark_failed" ELSE "mark_processed"

\* where control goes once mark_processed returned or raised
PcAfterMarkProcessed(raised) == IF raised THEN "mark_failed" ELSE "continue"

\* where control goes once mark_failed returned or raised
PcAfterMarkFailed(raised) == IF raised THEN "crashed" ELSE "continue"

\* the for loop's next iteration, or process_batch's return; a single call of
\* process_batch keeps the record of its events
Advance(s) ==
  LET done == [s EXCEPT !.cur = NoEntry, !.params = NoParams, !.exc = NONE,
                        !.log = IF s.mode = "call" THEN Append(@, s.cur)
                                ELSE @]
  IN IF s.i < Len(s.batch)
     THEN [done EXCEPT !.pc = "handle", !.i = @ + 1]
     ELSE IF s.mode = "loop" THEN Idle("loop")
          ELSE [done EXCEPT !.pc = "returned"]

Cur(w) == wk[w].batch[wk[w].i]

\* lines 60-68: open a transaction and claim a batch
Fetch(w) ==
  /\ wk[w].pc = "fetch"
  /\ LET ids == fetch_pending_events(outbox, locks, BatchSize)
     IN /\ locks' = [e \in DOMAIN locks |->
                       IF \E k \in 1..Len(ids) : ids[k] = e THEN w
                       ELSE locks[e]]
        /\ wk' = [wk EXCEPT ![w] =
                    [@ EXCEPT !.pc = "commit",
                              !.batch = [k \in 1..Len(ids) |-> outbox[ids[k]]]]]
  /\ UNCHANGED <<srcvars, graph, scope, call, outbox>>

\* lines 69-75: commit, then sleep or start process_batch
Commit(w) ==
  /\ wk[w].pc = "commit"
  /\ locks' = [e \in DOMAIN locks |-> IF locks[e] = w THEN NONE ELSE locks[e]]
  /\ wk' = [wk EXCEPT ![w] =
              IF wk[w].batch = <<>> THEN Idle("loop")
              ELSE [@ EXCEPT !.pc = "handle", !.i = 1]]
  /\ UNCHANGED <<srcvars, graph, scope, call, outbox>>

\* lines 30-37 and handle_event up to its loads
Handle(w) ==
  /\ wk[w].pc = "handle"
  /\ LET ev == Cur(w)
         user == LoadSubject(ev.aggregate_type, ev.aggregate_id)
         path == PathOf(user, ev.op)
     IN IF PcAfterDispatch(ev.aggregate_type) = "continue"
        THEN wk' = [wk EXCEPT ![w] =
                      Advance([@ EXCEPT !.cur.handle = "unknown"])]
        ELSE \E raised \in BOOLEAN :
               wk' = [wk EXCEPT ![w] =
                        IF raised
                        THEN [@ EXCEPT !.pc = "mark_failed", !.exc = "load",
                                       !.cur.handle = "raised"]
                        ELSE IF PcAfterLoad(path) = "continue"
                        THEN Advance([@ EXCEPT !.cur.handle = "ok",
                                               !.cur.absent = (user = NoRow),
                                               !.cur.path = path])
                        ELSE [@ EXCEPT
                                !.pc = PcAfterLoad(path),
                                !.params =
                                  IF path = "upsert"
                                  THEN Params(ev.aggregate_type,
                                              ev.aggregate_id)
                                  ELSE NoParams,
                                !.cur.handle =
                                  IF path = "skip" THEN "ok" ELSE "pending",
                                !.cur.absent = (user = NoRow),
                                !.cur.path = path]]
  /\ UNCHANGED <<srcvars, graph, scope, call, outbox, locks>>

\* self.neo4j.write(...) of handle_event, and its return
Write(w) ==
  /\ wk[w].pc = "write"
  /\ LET ev == Cur(w)
     IN \E raised \in BOOLEAN :
          /\ graph' = IF raised THEN graph
                      ELSE IF wk[w].cur.path = "upsert"
                      THEN Upsert(ev.aggregate_type, graph, wk[w].params)
                      ELSE Delete(ev.aggregate_type, graph, ev.aggregate_id)
          /\ wk' = [wk EXCEPT ![w] =
                      [@ EXCEPT !.pc = PcAfterWrite(raised),
                                !.exc = IF raised THEN "write" ELSE NONE,
                                !.cur.handle = IF raised THEN "raised" ELSE "ok",
                                !.cur.wrote = ~raised]]
  /\ UNCHANGED <<srcvars, scope, call, outbox, locks>>

\* lines 39-40
MarkProcessed(w) ==
  /\ wk[w].pc = "mark_processed"
  /\ \E raised \in BOOLEAN :
       IF PcAfterMarkProcessed(raised) = "mark_failed"
       THEN /\ wk' = [wk EXCEPT ![w] =
                        [@ EXCEPT !.pc = "mark_failed",
                                  !.exc = "mark_processed",
                                  !.cur.mp_raised = TRUE]]
            /\ UNCHANGED outbox
       ELSE /\ outbox' = mark_processed(outbox, Cur(w).id)
            /\ wk' = [wk EXCEPT ![w] =
                        Advance([@ EXCEPT !.cur.mark = "processed"])]
  /\ UNCHANGED <<srcvars, graph, scope, call, locks>>

\* lines 41-44
MarkFailed(w) ==
  /\ wk[w].pc = "mark_failed"
  /\ \E raised \in BOOLEAN :
       IF PcAfterMarkFailed(raised) = "crashed"
       THEN /\ wk' = [wk EXCEPT ![w] =
                        [@ EXCEPT !.pc = "crashed", !.cur.mark = "raised"]]
            /\ UNCHANGED outbox
       ELSE /\ outbox' = mark_failed(outbox, Cur(w).id, wk[w].exc)
            /\ wk' = [wk EXCEPT ![w] =
                        Advance([@ EXCEPT !.cur.mark = "failed"])]
  /\ UNCHANGED <<srcvars, graph, scope, call, locks>>

\* the events process_batch may be handed: of either pipeline, or of a tag
\* the worker does not know
EventPool(id) ==
  {NewEvent(id, t, u, op) :
     t \in AGG_TYPES \cup {"b2x_interaction"}, u \in UserIds,
     op \in {"INSERT", "DELETE"}}

InitSource ==
  /\ b2c_customers \in {{}, {CHOOSE r \in CustomerRows : TRUE}}
  /\ vendor_users \in {{}, {CHOOSE r \in VendorUserRows : r.vendor_id = "vd1"}}
  /\ recipe_history = <<CHOOSE r \in HistoryRows : r.event_type = "viewed">>
  /\ saved_recipes = <<>>
  /\ recipe_ratings = <<>>
  /\ customer_product_interactions
       = <<CHOOSE r \in InteractionRows :
             r.interaction_type = "viewed" /\ r.product_id = "p1">>
  /\ vendor_user_actions
       = <<CHOOSE r \in ActionRows :
             r.action_type = "view_product" /\ r.product_id = "p1">>
  /\ match_feedback = <<>>
  /\ graph = EmptyGraph
  /\ scope = NONE
  /\ call = NoCall

\* the outbox of a worker run: an insert of the customer's rows and a delete
\* of the vendor user's
InitOutbox ==
  /\ outbox = [e \in EventIds |->
                 IF e = 1 THEN NewEvent(e, B2C, "u1", "INSERT")
                 ELSE NewEvent(e, B2B, "u1", "DELETE")]
  /\ locks = [e \in EventIds |-> NONE]

\* every worker instance in its main loop
Init ==
  /\ InitSource
  /\ InitOutbox
  /\ wk = [w \in Workers |-> Idle("loop")]

Next ==
  \E w \in Workers :
    \/ Fetch(w)
    \/ Commit(w)
    \/ Handle(w)
    \/ Write(w)
    \/ MarkProcessed(w)
    \/ MarkFailed(w)

Spec == Init /\ [][Next]_vars

\* the main loops while the outbox store answers: mark_processed and
\* mark_failed do not raise; every worker that can take a step takes one
WorkerStep(w) ==
  \/ Fetch(w)
  \/ Commit(w)
  \/ Handle(w)
  \/ Write(w)
  \/ MarkProcessed(w) /\ ~wk'[w].cur.mp_raised
  \/ MarkFailed(w) /\ wk'[w].pc # "crashed"

NextLive == \E w \in Workers : WorkerStep(w)

SpecLive ==
  Init /\ [][NextLive]_vars /\ \A w \in Workers : WF_vars(WorkerStep(w))

\* the workers running while a producer changes the subject's rows: event 1
\* is pending for a customer that is present, event 2 is enqueued by the
\* producer's write
NotEnqueued(ev) == [ev EXCEPT !.status = "absent"]

InitRace ==
  /\ b2c_customers = {CHOOSE r \in CustomerRows : TRUE}
  /\ vendor_users = {}
  /\ recipe_history = <<CHOOSE r \in HistoryRows : r.event_type = "viewed">>
  /\ saved_recipes = <<>>
  /\ recipe_ratings = <<>>
  /\ customer_product_interactions = <<>>
  /\ vendor_user_actions = <<>>
  /\ match_feedback = <<>>
  /\ graph = EmptyGraph
  /\ scope = NONE
  /\ call = NoCall
  /\ outbox = [e \in EventIds |->
                 IF e = 1 THEN NewEvent(e, B2C, "u1", "UPDATE")
                 ELSE NotEnqueued(NewEvent(e, B2C, "u1", "UPDATE"))]
  /\ locks = [e \in EventIds |-> NONE]
  /\ wk = [w \in Workers |-> Idle("loop")]

\* the producer deletes the customer; the write enqueues a DELETE event
DeleteCustomerEnqueue(id) ==
  /\ outbox[2].status = "absent"
  /\ b2c_customers' = {r \in b2c_customers : r.id # id}
  /\ outbox' = [outbox EXCEPT ![2] = NewEvent(2, B2C, id, "DELETE")]
  /\ UNCHANGED <<vendor_users, recipe_history, saved_recipes, recipe_ratings,
                 customer_product_interactions, vendor_user_actions,
                 match_feedback, graph, scope, call, locks, wk>>

\* the producer records a recipe event; the write enqueues an INSERT event
InsertHistoryEnqueue(row) ==
  /\ outbox[2].status = "absent"
  /\ recipe_history' = Append(recipe_history, row)
  /\ outbox' = [outbox EXCEPT ![2] = NewEvent(2, B2C, row.user_id, "INSERT")]
  /\ UNCHANGED <<b2c_customers, vendor_users, saved_recipes, recipe_ratings,
                 customer_product_interactions, vendor_user_actions,
                 match_feedback, graph, scope, call, locks, wk>>

NextRace ==
  \/ \E w \in Workers : WorkerStep(w)
  \/ \E id \in UserIds : DeleteCustomerEnqueue(id)
  \/ \E row \in HistoryRows : InsertHistoryEnqueue(row)

SpecRace == InitRace /\ [][NextRace]_vars

\* process_batch called once with a batch of outbox events
Batches ==
  {q \in UNION {[1..n -> EventIds] : n \in 1..BatchSize} :
     \A a, b \in 1..Len(q) : a # b => q[a] # q[b]}

InitBatch ==
  /\ InitSource
  /\ outbox \in {ob \in [EventIds -> UNION {EventPool(e) : e \in EventIds}] :
                   \A e \in EventIds : ob[e].id = e}
  /\ locks = [e \in EventIds |-> NONE]
  /\ \E q \in Batches :
       wk = [w \in Workers |->
               IF w = "w1"
               THEN [Idle("call") EXCEPT
                       !.pc = "handle", !.i = 1,
                       !.batch = [k \in 1..Len(q) |-> outbox[q[k]]]]
               ELSE Idle("call")]

NextBatch ==
  \E w \in Workers :
    \/ Handle(w)
    \/ Write(w)
    \/ MarkProcessed(w)
    \/ MarkFailed(w)

SpecBatch == InitBatch /\ [][NextBatch]_vars

\* ================================================================== claims
\* the edge kinds a sync of a subject of agg_type manages
ManagedKinds(agg_type) ==
  IF agg_type = B2C
  THEN {"VIEWED", "COOKED", "SAVED", "RATED",
        "VIEWED_PRODUCT", "PURCHASED", "SAVED_PRODUCT", "RATED_PRODUCT"}
  ELSE {"VIEWED_PRODUCT", "APPROVED_MATCH", "REJECTED_MATCH"}

IsRecipeKind(K) == K \in {"VIEWED", "COOKED", "SAVED", "RATED"}
IsMatchKind(K) == K \in {"APPROVED_MATCH", "REJECTED_MATCH"}

\* the nodes an edge of kind K may point to
CounterpartiesOf(K) ==
  IF IsRecipeKind(K) THEN {Ref("Recipe", r) : r \in Recipes}
  ELSE {Ref("Product", q) : q \in Products}

\* the aggregate collection kind K is built from
RecordsOf(params, K) ==
  IF IsRecipeKind(K) THEN params.recipes
  ELSE IF IsMatchKind(K) THEN params.matches
  ELSE params.products

CounterpartyOf(K, rec) ==
  IF IsRecipeKind(K) THEN Ref("Recipe", rec.recipe_id)
  ELSE IF IsMatchKind(K) THEN Ref("Product", rec.target_product_id)
  ELSE Ref("Product", rec.product_id)

\* K's condition on an aggregate record
Justifies(K, rec) ==
  CASE K = "VIEWED" -> rec.views_count > 0
    [] K = "COOKED" -> rec.cooks_count > 0
    [] K = "SAVED" -> rec.saved
    [] K = "RATED" -> rec.rating # NULL
    [] K = "VIEWED_PRODUCT" -> rec.views_count > 0
    [] K = "PURCHASED" -> rec.purchases_count > 0
    [] K = "SAVED_PRODUCT" -> rec.saved
    [] K = "RATED_PRODUCT" -> rec.rating # NULL
    [] K = "APPROVED_MATCH" -> rec.approved
    [] K = "REJECTED_MATCH" -> rec.rejected

\* the temporal value that denotes the instant of a timestamp field
At(x) == IF x = NULL THEN NULL ELSE [instant |-> x]

\* the properties an edge of kind K takes from an aggregate record
PropsFrom(K, rec) ==
  CASE K = "VIEWED" -> [count |-> rec.views_count, last_at |-> At(rec.last_view_at)]
    [] K = "COOKED" -> [count |-> rec.cooks_count, last_at |-> At(rec.last_cook_at)]
    [] K = "SAVED" -> [first_saved_at |-> At(rec.first_saved_at)]
    [] K = "RATED" -> [rating |-> rec.rating, last_at |-> At(rec.last_rating_at)]
    [] K = "VIEWED_PRODUCT" ->
         [count |-> rec.views_count, last_at |-> At(rec.last_view_at)]
    [] K = "PURCHASED" ->
         [count |-> rec.purchases_count, last_at |-> At(rec.last_purchase_at),
          quantity_total |-> rec.quantity_total,
          price_total |-> rec.price_total]
    [] K = "SAVED_PRODUCT" -> <<>>
    [] K = "RATED_PRODUCT" ->
         [rating |-> rec.rating, last_at |-> At(rec.last_rating_at)]
    [] K = "APPROVED_MATCH" ->
         [source_product_id |-> rec.source_product_id,
          last_at |-> At(rec.last_feedback_at)]
    [] K = "REJECTED_MATCH" ->
         [source_product_id |-> rec.source_product_id,
          reason |-> rec.reason, last_at |-> At(rec.last_feedback_at)]

EdgesOfKind(g, K, u, c) == {e \in DOMAIN g.edges : EdgeIs(e, K, u, c)}

\* the latest call was an upsert that succeeded; no source write since
UpsertDone == call.path = "upsert" /\ ~call.raised

\* C1: after a successful upsert sync of a subject, for every managed edge
\* kind K and counterparty c there is an edge of kind K from the subject to c
\* iff the aggregate just computed has a record for c that satisfies K's
\* condition; there is then exactly one such edge and its properties are
\* those of such a record; every other edge of a managed kind is gone.
C1_EdgesEqualAggregate ==
  UpsertDone =>
    LET u == Ref(SubjectLabel(call.agg_type), call.id)
        params == Params(call.agg_type, call.id)
    IN \A K \in ManagedKinds(call.agg_type) :
         \A c \in CounterpartiesOf(K) :
           LET recs == RecordsOf(params, K)
               just == {i \in 1..Len(recs) :
                          CounterpartyOf(K, recs[i]) = c /\ Justifies(K, recs[i])}
               E == EdgesOfKind(graph, K, u, c)
           IN IF just = {} THEN E = {}
              ELSE \E e \in E :
                     /\ E = {e}
                     /\ graph.edges[e] = 1
                     /\ \E i \in just : e.props = PropsFrom(K, recs[i])

\* a sync that left an edge in place and a counterparty node without one
C1_Witness ==
  /\ UpsertDone
  /\ \E e \in DOMAIN graph.edges :
       /\ e.kind \in ManagedKinds(call.agg_type)
       /\ \E n \in graph.nodes :
            /\ n.label = e.dst.label
            /\ n.id # e.dst.id
            /\ EdgesOfKind(graph, e.kind, e.src, Ref(n.label, n.id)) = {}

DeleteOp(op) == op \in {"DELETE", "delete", "Delete"}

\* C5: once an event whose op is DELETE in any case has been handled for a
\* subject missing from the source, the subject node and every edge attached
\* to it are gone, and the mutation issued was the delete, not the upsert.
C5_DeleteRemovesSubject ==
  (/\ call.agg_type # NONE
   /\ ~call.raised
   /\ DeleteOp(call.op)
   /\ LoadSubject(call.agg_type, call.id) = NoRow)
  => LET u == Ref(SubjectLabel(call.agg_type), call.id)
     IN /\ call.path = "delete"
        /\ ~HasNode(graph, u.label, u.id)
        /\ \A e \in DOMAIN graph.edges : e.src # u /\ e.dst # u

\* a lower-case delete that removed a node the graph had
C5_Witness ==
  /\ call.op = "delete"
  /\ call.path = "delete"
  /\ call.had_node
  /\ graph.nodes # {}

\* the record of the single process_batch call
BatchLog == wk["w1"].log
BatchEnded == wk["w1"].pc \in {"returned", "crashed"}
NonDeleteOp(op) == op \in {"INSERT", "UPDATE"}
KnownTag(t) == t \in {"b2c_interaction", "b2b_interaction"}

\* C3: when process_batch ends, every event of the batch has been handled;
\* each event whose handling raised has been recorded by mark_failed, with
\* its attempts incremented and the error text stored; each event whose
\* handling succeeded is marked processed (unless mark_processed raised).
C3_FailureIsolation ==
  BatchEnded =>
    /\ Len(BatchLog) = Len(wk["w1"].batch)
    /\ \A k \in 1..Len(BatchLog) :
         LET ev == wk["w1"].batch[k]
         IN /\ BatchLog[k].handle = "raised" =>
                 /\ BatchLog[k].mark = "failed"
                 /\ outbox[ev.id].attempts = ev.attempts + 1
                 /\ outbox[ev.id].last_error # NONE
            /\ (BatchLog[k].handle = "ok" /\ ~BatchLog[k].mp_raised) =>
                 outbox[ev.id].status = "processed"

\* the events of the batch handled so far whose op is INSERT or UPDATE and
\* whose subject row was missing
SkippedAt(k) ==
  /\ NonDeleteOp(wk["w1"].batch[k].op)
  /\ KnownTag(wk["w1"].batch[k].aggregate_type)
  /\ BatchLog[k].absent

\* C4 as stated: such an event causes no graph mutation and is left unmarked,
\* its status and attempts as they were.
C4_SkippedLeftUnmarked ==
  \A k \in 1..Len(BatchLog) :
    SkippedAt(k) =>
      LET ev == wk["w1"].batch[k]
      IN /\ ~BatchLog[k].wrote
         /\ outbox[ev.id].status = ev.status
         /\ outbox[ev.id].attempts = ev.attempts

\* C4 amended: such an event causes no graph mutation and handle_event
\* returns normally, so process_batch calls mark_processed for it: unless
\* that call raises, the event ends processed with its attempts unchanged.
C4_SkippedIsMarkedProcessed ==
  /\ \A k \in 1..Len(BatchLog) :
       SkippedAt(k) =>
         LET ev == wk["w1"].batch[k]
         IN /\ ~BatchLog[k].wrote
            /\ BatchLog[k].handle = "ok"
            /\ ~BatchLog[k].mp_raised =>
                 /\ BatchLog[k].mark = "processed"
                 /\ outbox[ev.id].status = "processed"
                 /\ outbox[ev.id].attempts = ev.attempts
  /\ (/\ wk["w1"].pc \in {"write", "mark_processed", "mark_failed", "crashed"}
      /\ NonDeleteOp(Cur("w1").op)
      /\ wk["w1"].cur.absent)
     => /\ wk["w1"].pc # "write"
        /\ ~wk["w1"].cur.wrote
        /\ wk["w1"].pc = "mark_failed" => wk["w1"].cur.mp_raised

\* an INSERT for a missing subject that ended processed
C4_Witness ==
  \E k \in 1..Len(BatchLog) :
    /\ SkippedAt(k)
    /\ wk["w1"].batch[k].op = "INSERT"
    /\ outbox[wk["w1"].batch[k].id].status = "processed"

Handling(w) ==
  wk[w].pc \in {"handle", "write", "mark_processed", "mark_failed"}

\* C6: no two workers are handling the same event at the same time.
C6_NoConcurrentProcessing ==
  \A a, b \in Workers :
    (a # b /\ Handling(a) /\ Handling(b)) => Cur(a).id # Cur(b).id

\* C7: the claim step returns only events whose attempts are below
\* max_attempts, and no event's attempts ever exceed max_attempts.
C7_AttemptCeiling ==
  /\ \A w \in Workers : \A k \in 1..Len(wk[w].batch) :
       wk[w].batch[k].attempts < MaxAttempts
  /\ \A e \in DOMAIN outbox : outbox[e].attempts <= MaxAttempts

\* C8: no error raised while working on an event ends the worker:
\* process_batch always returns and the loop goes on.
C8_WorkerNeverTerminates == \A w \in Workers : wk[w].pc # "crashed"

\* C9: an event of an unknown aggregate_type causes no graph write and no
\* status update, its outbox row stays as it was, and the batch goes on with
\* the next event.
C9_UnknownTagSkipped ==
  /\ \A k \in 1..Len(BatchLog) :
       LET ev == wk["w1"].batch[k]
       IN ~KnownTag(ev.aggregate_type) =>
            /\ BatchLog[k].handle = "unknown"
            /\ ~BatchLog[k].wrote
            /\ BatchLog[k].mark = "none"
            /\ outbox[ev.id] = ev
            /\ k < Len(wk["w1"].batch) => wk["w1"].i > k
  /\ wk["w1"].pc \in {"write", "mark_processed", "mark_failed", "crashed"}
       => KnownTag(Cur("w1").aggregate_type)

\* an unknown tag first, and the event after it processed
C9_Witness ==
  /\ Len(BatchLog) = 2
  /\ ~KnownTag(wk["w1"].batch[1].aggregate_type)
  /\ KnownTag(wk["w1"].batch[2].aggregate_type)
  /\ BatchLog[2].mark = "processed"

\* C10: a worker about to call mark_processed for an event whose subject row
\* was present has completed that event's graph write successfully.
C10_ProcessedAfterWrite ==
  \A w \in Workers :
    (wk[w].pc = "mark_processed" /\ ~wk[w].cur.absent) =>
      /\ wk[w].cur.path = "upsert"
      /\ wk[w].cur.wrote
      /\ wk[w].cur.handle = "ok"

\* a worker about to mark an upserted subject's event processed
C10_Witness ==
  \E w \in Workers :
    /\ wk[w].pc = "mark_processed"
    /\ ~wk[w].cur.absent
    /\ wk[w].cur.wrote
    /\ HasNode(graph, SubjectLabel(Cur(w).aggregate_type), Cur(w).aggregate_id)

\* ------------------------------------------------- claims on the aggregators
\* the orderings of the rows of a list
Orderings(rows) ==
  LET n == Len(rows)
      Bij == {f \in [1..n -> 1..n] : \A a, b \in 1..n : a # b => f[a] # f[b]}
  IN {[k \in 1..n |-> rows[f[k]]] : f \in Bij}

\* the records of an aggregate, their order set aside
Records(agg) == {agg[k] : k \in 1..Len(agg)}

\* C11: for every aggregator and every ordering of the rows it is given, the
\* set of records is the same, every field included (rating, last_rating_at
\* and reason too).
C11_OrderIndependent ==
  \A u \in UserIds :
    LET actions == load_product_actions(u)
        feedback == load_match_feedback(u)
        history == load_recipe_history(u)
        saved == load_saved_recipes(u)
        ratings == load_recipe_ratings(u)
        interactions == load_product_interactions(u)
    IN /\ \A p \in Orderings(actions) :
            Records(B2B_aggregate_products(p))
              = Records(B2B_aggregate_products(actions))
       /\ \A p \in Orderings(feedback) :
            Records(B2B_aggregate_matches(p))
              = Records(B2B_aggregate_matches(feedback))
       /\ \A h \in Orderings(history), s \in Orderings(saved),
             r \in Orderings(ratings) :
            Records(B2C_aggregate_recipes(h, s, r))
              = Records(B2C_aggregate_recipes(history, saved, ratings))
       /\ \A p \in Orderings(interactions) :
            Records(B2C_aggregate_products(p))
              = Records(B2C_aggregate_products(interactions))

\* the positions of the rows of a product with a given value of a field
RowsOfKind(rows, pid, f, kind) ==
  {k \in 1..Len(rows) : rows[k].product_id = pid /\ rows[k][f] = kind}

\* C12: B2C aggregate_products returns exactly one record per distinct
\* product_id of its input; views_count is the number of that product's
\* "viewed" rows and purchases_count the number of its "purchased" rows; a
\* kind without rows stays at count 0 with its timestamp unset; an empty
\* input yields no record. B2B aggregate_products counts "view_product"
\* rows the same way.
C12_AggregationCounts ==
  \A u \in UserIds :
    LET rows == load_product_interactions(u)
        agg == B2C_aggregate_products(rows)
        actions == load_product_actions(u)
        bagg == B2B_aggregate_products(actions)
    IN /\ {agg[k].product_id : k \in 1..Len(agg)}
            = {rows[k].product_id : k \in 1..Len(rows)}
       /\ \A i, j \in 1..Len(agg) :
            i # j => agg[i].product_id # agg[j].product_id
       /\ \A k \in 1..Len(agg) :
            LET rec == agg[k]
                views == RowsOfKind(rows, rec.product_id,
                                    "interaction_type", "viewed")
                buys == RowsOfKind(rows, rec.product_id,
                                   "interaction_type", "purchased")
            IN /\ rec.views_count = Cardinality(views)
               /\ rec.purchases_count = Cardinality(buys)
               /\ views = {} => rec.last_view_at = NULL
               /\ buys = {} => /\ rec.last_purchase_at = NULL
                               /\ rec.quantity_total = 0
                               /\ rec.price_total = 0
       /\ rows = <<>> => agg = <<>>
       /\ {bagg[k].product_id : k \in 1..Len(bagg)}
            = {actions[k].product_id : k \in 1..Len(actions)}
       /\ \A i, j \in 1..Len(bagg) :
            i # j => bagg[i].product_id # bagg[j].product_id
       /\ \A k \in 1..Len(bagg) :
            LET views == RowsOfKind(actions, bagg[k].product_id,
                                    "action_type", "view_product")
            IN /\ bagg[k].views_count = Cardinality(views)
               /\ views = {} => bagg[k].last_view_at = NULL

\* one record for a product viewed once and purchased once
C12_Witness ==
  \E u \in UserIds :
    LET agg == B2C_aggregate_products(load_product_interactions(u))
    IN /\ Len(agg) = 1
       /\ agg[1].views_count = 1
       /\ agg[1].purchases_count = 1

MaxOver(T) == CHOOSE m \in T : \A x \in T : x <= m
MinOver(T) == CHOOSE m \in T : \A x \in T : m <= x

\* the values of field t over the rows that agree with the record rec on the
\* key fields keys and, when kind is given, are of that kind
TimesOf(rows, rec, keys, f, kind, t) ==
  {rows[k][t] : k \in {j \in 1..Len(rows) :
                         /\ \A c \in keys : rows[j][c] = rec[c]
                         /\ f # NONE => rows[j][f] = kind}}

\* field last of rec is the maximum of T, when there is a contributing row
IsLatest(rec, last, T) == T # {} => rec[last] = MaxOver(T)

\* C13: in whatever order the rows arrive, every "last" timestamp
\* (last_view_at, last_cook_at, last_purchase_at, last_feedback_at) is the
\* maximum timestamp over the contributing rows of its kind for that
\* counterparty, and first_saved_at the minimum saved_at over the recipe's
\* saved rows.
C13_DirectionalFolds ==
  \A u \in UserIds :
    /\ \A h \in Orderings(load_recipe_history(u)),
          s \in Orderings(load_saved_recipes(u)) :
         LET agg == B2C_aggregate_recipes(h, s, load_recipe_ratings(u))
         IN \A k \in 1..Len(agg) :
              /\ IsLatest(agg[k], "last_view_at",
                          TimesOf(h, agg[k], {"recipe_id"}, "event_type",
                                  "viewed", "event_at"))
              /\ IsLatest(agg[k], "last_cook_at",
                          TimesOf(h, agg[k], {"recipe_id"}, "event_type",
                                  "cooked", "event_at"))
              /\ LET T == TimesOf(s, agg[k], {"recipe_id"}, NONE, NONE,
                                  "saved_at")
                 IN T # {} => agg[k].first_saved_at = MinOver(T)
    /\ \A p \in Orderings(load_product_interactions(u)) :
         LET agg == B2C_aggregate_products(p)
         IN \A k \in 1..Len(agg) :
              /\ IsLatest(agg[k], "last_view_at",
                          TimesOf(p, agg[k], {"product_id"},
                                  "interaction_type", "viewed",
                                  "interaction_timestamp"))
              /\ IsLatest(agg[k], "last_purchase_at",
                          TimesOf(p, agg[k], {"product_id"},
                                  "interaction_type", "purchased",
                                  "interaction_timestamp"))
    /\ \A p \in Orderings(load_product_actions(u)) :
         LET agg == B2B_aggregate_products(p)
         IN \A k \in 1..Len(agg) :
              IsLatest(agg[k], "last_view_at",
                       TimesOf(p, agg[k], {"product_id"}, "action_type",
                               "view_product", "created_at"))
    /\ \A p \in Orderings(load_match_feedback(u)) :
         LET agg == B2B_aggregate_matches(p)
         IN \A k \in 1..Len(agg) :
              IsLatest(agg[k], "last_feedback_at",
                       TimesOf(p, agg[k],
                               {"source_product_id", "target_product_id"},
                               NONE, NONE, "created_at"))

\* two views of a recipe stored newest first, and two saves likewise
C13_Witness ==
  \/ /\ Len(recipe_history) = 2
     /\ recipe_history[1].event_type = "viewed"
     /\ recipe_history[2].event_type = "viewed"
     /\ recipe_history[1].event_at > recipe_history[2].event_at
     /\ B2C_aggregate_recipes(recipe_history, <<>>, <<>>)[1].last_view_at
          = recipe_history[1].event_at
  \/ /\ Len(saved_recipes) = 2
     /\ saved_recipes[1].saved_at > saved_recipes[2].saved_at
     /\ B2C_aggregate_recipes(<<>>, saved_recipes, <<>>)[1].first_saved_at
          = saved_recipes[2].saved_at

\* ------------------------------------------------ claims on batches of events
SubjectOf(ev) == <<ev.aggregate_type, ev.aggregate_id>>

\* the graph after handle_event for ev on graph g, given whether its write
\* took effect
GraphBy(ev, wrote, g) ==
  IF wrote /\ KnownTag(ev.aggregate_type)
  THEN GraphAfter(ev.aggregate_type, ev.aggregate_id,
                  PathOf(LoadSubject(ev.aggregate_type, ev.aggregate_id),
                         ev.op),
                  FALSE, g)
  ELSE g

\* the outbox after the status update that landed for ev
MarkBy(ob, ev, entry) ==
  CASE entry.mark = "processed" -> mark_processed(ob, ev.id)
    [] entry.mark = "failed" -> mark_failed(ob, ev.id, outbox[ev.id].last_error)
    [] OTHER -> ob

TwoSubjects(a, b) ==
  /\ KnownTag(a.aggregate_type)
  /\ KnownTag(b.aggregate_type)
  /\ SubjectOf(a) # SubjectOf(b)

\* C14: for two events a and b of different subjects, the batch [a, b] and
\* the batch [b, a], run against the same source tables with the same
\* outcome for each event, end in the same graph and the same outbox rows:
\* a finished run of [a, b] from the empty graph ends where [b, a] would,
\* and from every graph the worker can reach the two orders agree.
C14_OrderOfSubjectsIrrelevant ==
  /\ (/\ wk["w1"].pc = "returned"
      /\ Len(wk["w1"].batch) = 2
      /\ TwoSubjects(wk["w1"].batch[1], wk["w1"].batch[2]))
     => LET a == wk["w1"].batch[1]
            b == wk["w1"].batch[2]
            ob0 == [e \in EventIds |->
                      IF e = a.id THEN a ELSE IF e = b.id THEN b
                      ELSE outbox[e]]
        IN /\ graph = GraphBy(a, BatchLog[1].wrote,
                              GraphBy(b, BatchLog[2].wrote, EmptyGraph))
           /\ outbox = MarkBy(MarkBy(ob0, b, BatchLog[2]), a, BatchLog[1])
  /\ \A i, j \in EventIds : \A wa, wb \in BOOLEAN :
       TwoSubjects(outbox[i], outbox[j]) =>
         GraphBy(outbox[i], wa, GraphBy(outbox[j], wb, graph))
           = GraphBy(outbox[j], wb, GraphBy(outbox[i], wa, graph))

\* a finished batch of an upsert for one subject and a delete for another
C14_Witness ==
  /\ wk["w1"].pc = "returned"
  /\ Len(wk["w1"].batch) = 2
  /\ TwoSubjects(wk["w1"].batch[1], wk["w1"].batch[2])
  /\ BatchLog[1].wrote /\ BatchLog[1].path = "upsert"
  /\ BatchLog[2].wrote /\ BatchLog[2].path = "delete"
  /\ graph.nodes # {}

\* --------------------------------------------- claims on concurrent workers
Subjects ==
  {Ref("B2CCustomer", u) : u \in UserIds} \cup {Ref("VendorUser", u) : u \in UserIds}

SubjectRef(ev) == Ref(SubjectLabel(ev.aggregate_type), ev.aggregate_id)
NodeOf(g, s) == {n \in g.nodes : NodeIs(n, s.label, s.id)}
EdgesFrom(g, s) == [e \in {x \in DOMAIN g.edges : x.src = s} |-> g.edges[e]]

\* worker w completes its graph write in this step
Writes(w) == wk[w].pc = "write" /\ wk'[w].pc # "write"

\* C15: a graph write for an event of subject A, upsert or delete, leaves
\* the node of every other subject B and every edge leaving B as they were,
\* whichever worker makes it and whatever the other workers are doing; no
\* other step changes the graph.
C15_SubjectScoped ==
  [][/\ graph' # graph => \E w \in Workers : Writes(w)
     /\ \A w \in Workers :
          Writes(w) =>
            \A s \in Subjects \ {SubjectRef(Cur(w))} :
              /\ NodeOf(graph', s) = NodeOf(graph, s)
              /\ EdgesFrom(graph', s) = EdgesFrom(graph, s)]_vars

\* a worker has just written for one subject while the other subject has a
\* node and an edge to the same product
C15_Witness ==
  \E w \in Workers :
    /\ wk[w].pc = "mark_processed"
    /\ wk[w].cur.wrote
    /\ \E s \in Subjects \ {SubjectRef(Cur(w))} :
         /\ NodeOf(graph, s) # {}
         /\ \E e \in DOMAIN graph.edges, f \in DOMAIN graph.edges :
              /\ e.src = s
              /\ f.src = SubjectRef(Cur(w))
              /\ e.dst = f.dst

\* --------------------------------------------------- claims on match feedback
\* an edge of kind K from u that carries the match record rec
CarriesMatch(e, K, u, rec) ==
  /\ EdgeIs(e, K, u, Ref("Product", rec.target_product_id))
  /\ e.props.source_product_id = rec.source_product_id
  /\ e.props.last_at = At(rec.last_feedback_at)

\* C16: after a successful B2B sync every aggregate match record with
\* approved = true has an APPROVED_MATCH edge to its target that carries the
\* record's source_product_id and last_feedback_at, and every rejected
\* record a REJECTED_MATCH edge likewise, also when two records share a
\* target and differ in their source.
C16_MatchKeepsCompositeKey ==
  (UpsertDone /\ call.agg_type = B2B) =>
    LET u == Ref("VendorUser", call.id)
        matches == B2B_params(call.id).matches
    IN \A k \in 1..Len(matches) :
         /\ matches[k].approved =>
              \E e \in DOMAIN graph.edges :
                CarriesMatch(e, "APPROVED_MATCH", u, matches[k])
         /\ matches[k].rejected =>
              \E e \in DOMAIN graph.edges :
                CarriesMatch(e, "REJECTED_MATCH", u, matches[k])

\* ------------------------------------------------------- claims on the op
\* C17: when the subject row is present, a handle_event call that returns
\* has issued the upsert and left the graph that the upsert of the current
\* source rows gives, whether the op is INSERT, UPDATE or DELETE (in any
\* case): the op plays no part.
C17_OpIgnoredWhenPresent ==
  [][(/\ call'.agg_type # NONE
      /\ ~call'.raised
      /\ LoadSubject(call'.agg_type, call'.id) # NoRow)
     => /\ call'.path = "upsert"
        /\ graph' = Upsert(call'.agg_type, graph,
                           Params(call'.agg_type, call'.id))]_vars

\* a DELETE event for a subject that is present ended as an upsert
C17_Witness ==
  /\ call.op \in {"DELETE", "delete"}
  /\ call.path = "upsert"
  /\ ~call.raised
  /\ HasNode(graph, SubjectLabel(call.agg_type), call.id)
  /\ \E e \in DOMAIN graph.edges : e.kind \in ManagedKinds(call.agg_type)

\* ------------------------------------------------- claims on termination
\* the event is marked processed or its attempts have reached the ceiling
Terminal(e) ==
  outbox[e].status = "processed" \/ outbox[e].attempts >= MaxAttempts

\* worker w claims event e in this step
Claims(w, e) ==
  /\ wk[w].pc = "fetch"
  /\ wk'[w].pc = "commit"
  /\ \E k \in 1..Len(wk'[w].batch) : wk'[w].batch[k].id = e

\* C18: while the outbox store answers and the workers keep running, every
\* pending event of a supported tag is eventually marked processed or has
\* its attempts at the ceiling; from then on it stays so and no worker
\* claims it again.
C18_EveryEventTerminates ==
  /\ \A e \in EventIds : <>Terminal(e)
  /\ [][\A e \in EventIds :
          Terminal(e) => (Terminal(e)' /\ \A w \in Workers : ~Claims(w, e))]_vars

\* one event given up at the ceiling, the other processed, the workers idle
C18_Witness ==
  /\ \E e \in EventIds :
       outbox[e].status = "pending" /\ outbox[e].attempts >= MaxAttempts
  /\ \E e \in EventIds : outbox[e].status = "processed"
  /\ \A w \in Workers : wk[w].pc = "fetch"

\* -------------------------------------------- claims on the status updates
\* C19 as stated: mark_failed is invoked for an event only if its
\* handle_event raised, so an event whose handling succeeded keeps its
\* attempts, and at most one of the two status updates is made for an event.
C19_FailedOnlyIfHandlingFailed ==
  /\ \A w \in Workers :
       wk[w].pc = "mark_failed" => wk[w].cur.handle = "raised"
  /\ \A k \in 1..Len(BatchLog) :
       LET ev == wk["w1"].batch[k]
       IN /\ BatchLog[k].mark = "failed" => BatchLog[k].handle = "raised"
          /\ BatchLog[k].handle = "ok" => outbox[ev.id].attempts = ev.attempts
          /\ ~(BatchLog[k].mp_raised /\ BatchLog[k].mark = "failed")

\* C19 amended: mark_failed is invoked for an event only if its handle_event
\* raised or its mark_processed call raised; an event whose handling and
\* whose mark_processed both returned keeps its attempts and is marked
\* processed; both status updates are invoked for one event only when
\* mark_processed raised.
C19_FailedOnlyIfSomethingRaised ==
  /\ \A w \in Workers :
       wk[w].pc = "mark_failed" =>
         \/ wk[w].cur.handle = "raised" /\ ~wk[w].cur.mp_raised
         \/ wk[w].cur.handle = "ok" /\ wk[w].cur.mp_raised
  /\ \A k \in 1..Len(BatchLog) :
       LET ev == wk["w1"].batch[k]
       IN /\ BatchLog[k].mark = "failed" =>
               /\ BatchLog[k].handle = "raised" \/ BatchLog[k].mp_raised
               /\ outbox[ev.id].attempts = ev.attempts + 1
               /\ outbox[ev.id].status = ev.status
          /\ (BatchLog[k].handle = "ok" /\ ~BatchLog[k].mp_raised) =>
               /\ BatchLog[k].mark = "processed"
               /\ outbox[ev.id].attempts = ev.attempts
               /\ outbox[ev.id].status = "processed"
          /\ BatchLog[k].handle = "raised" => ~BatchLog[k].mp_raised

\* an event whose graph write took effect and whose mark_processed raised,
\* recorded as failed
C19_Witness ==
  \E k \in 1..Len(BatchLog) :
    /\ BatchLog[k].wrote
    /\ BatchLog[k].mp_raised
    /\ BatchLog[k].mark = "failed"
    /\ outbox[wk["w1"].batch[k].id].attempts = 1

\* ------------------------------------------------ claims on convergence
\* the source writes have stopped, every enqueued event is marked processed
\* and no worker is at work
Quiescent ==
  /\ \A e \in EventIds : outbox[e].status = "processed"
  /\ \A w \in Workers : wk[w].pc = "fetch"

\* the managed edges of subject u are those of the aggregate params
EdgesAgree(agg_type, u, params) ==
  \A K \in ManagedKinds(agg_type) : \A c \in CounterpartiesOf(K) :
    LET recs == RecordsOf(params, K)
        just == {i \in 1..Len(recs) :
                   CounterpartyOf(K, recs[i]) = c /\ Justifies(K, recs[i])}
        E == EdgesOfKind(graph, K, u, c)
    IN IF just = {} THEN E = {}
       ELSE \E e \in E : /\ E = {e}
                         /\ graph.edges[e] = 1
                         /\ \E i \in just : e.props = PropsFrom(K, recs[i])

\* C20: once the source writes have stopped and every enqueued event is
\* marked processed, the graph has a subject node exactly for the subjects
\* present in the source, and each such subject's managed edges are those of
\* the aggregate of its current rows.
C20_QuiescentConvergence ==
  Quiescent =>
    \A t \in AGG_TYPES, id \in UserIds :
      LET present == LoadSubject(t, id) # NoRow
      IN /\ HasNode(graph, SubjectLabel(t), id) <=> present
         /\ present => EdgesAgree(t, Ref(SubjectLabel(t), id), Params(t, id))

\* ------------------------------------------------ claims on the membership
MembershipsOf(g, u) ==
  {e \in DOMAIN g.edges : e.kind = "BELONGS_TO_VENDOR" /\ e.src = u}

\* C21: after a successful B2B upsert of a vendor user, whatever syncs and
\* changes of the user's vendor_id came before, the VendorUser node has
\* exactly one BELONGS_TO_VENDOR edge, and it points to the Vendor with the
\* user's current vendor_id.
C21_SingleVendorMembership ==
  (UpsertDone /\ call.agg_type = B2B) =>
    LET u == Ref("VendorUser", call.id)
        v == Ref("Vendor", load_vendor_user(call.id).vendor_id)
    IN \E e \in MembershipsOf(graph, u) :
         /\ MembershipsOf(graph, u) = {e}
         /\ graph.edges[e] = 1
         /\ e.dst = v

====
